---- MODULE Spec2Model ----
(***************************************************************************)
(* A model of the quadkey package: the QuadKey value type of               *)
(* quadkey/__init__.py and the TileSystem encoding it calls.               *)
(*                                                                         *)
(* A Python string is a sequence of one-character strings, so a key such   *)
(* as "120" is <<"1", "2", "0">>.  A QuadKey object is the record of its   *)
(* two attributes, [key, level].  A raised exception is the value Raised.  *)
(***************************************************************************)
EXTENDS Integers, Sequences, FiniteSets, Bags, TLC

\* ------------------------------------------------------------------ bounds

\* Keys of every length 1..MaxLen are inputs, all of them.
MaxLen == 2

\* difference() is run on pairs of tiles at most MaxSpan apart on each axis.
MaxSpan == 2

\* The deepest level of a quadkey.
MaxLevel == 23

\* ----------------------------------------------------------- Python values

None == [none |-> TRUE, val |-> 0]

Some(v) == [none |-> FALSE, val |-> v]

\* The exception a failed precondition or a failed assert statement raises.
Raised == [key |-> <<"!">>, level |-> -1]

abs(n) == IF n < 0 THEN -n ELSE n

\* str(k) for a digit k.
str(k) == CASE k = 0 -> "0" [] k = 1 -> "1" [] k = 2 -> "2" [] k = 3 -> "3"

\* The digit a character of a key stands for.
digit_of(c) == CASE c = "0" -> 0 [] c = "1" -> 1 [] c = "2" -> 2 [] c = "3" -> 3

\* s[:n]
slice_to(s, n) == SubSeq(s, 1, IF n < Len(s) THEN n ELSE Len(s))

\* Whether bit number b of the non-negative integer n is set.
bit_set(n, b) == (n \div (2 ^ b)) % 2 = 1

\* -------------------------------------------------------------- TileSystem

\* A key has 1 to 23 characters, each one of 0, 1, 2, 3.
valid_key(key) ==
    /\ Len(key) >= 1
    /\ Len(key) <= MaxLevel
    /\ \A i \in 1..Len(key) : key[i] \in {"0", "1", "2", "3"}

\* One digit per level, the most significant bit first; tileX gives the low
\* bit of a digit and tileY the high bit.  Bits above the level are not read.
tile_to_quadkey(tile, level) ==
    [j \in 1..level |->
        LET b == level - j
            digit == (IF bit_set(tile[1], b) THEN 1 ELSE 0)
                     + (IF bit_set(tile[2], b) THEN 2 ELSE 0)
        IN  str(digit)]

RECURSIVE quadkey_to_tile_loop(_, _, _, _)
quadkey_to_tile_loop(key, i, tileX, tileY) ==
    IF i > Len(key) THEN <<tileX, tileY>>
    ELSE LET d == digit_of(key[i])
         IN  quadkey_to_tile_loop(key, i + 1,
                                  2 * tileX + (d % 2),
                                  2 * tileY + ((d \div 2) % 2))

\* For each digit, from the most significant one: shift tileX and tileY left
\* and or in bit 0 and bit 1 of the digit.
quadkey_to_tile(key) == <<quadkey_to_tile_loop(key, 1, 0, 0), Len(key)>>

\* ----------------------------------------------------------------- QuadKey

\* The precondition decorator: the call is made only when the condition holds.
precondition(cond, result) == IF cond THEN result ELSE Raised

\* QuadKey.__init__ with its precondition left out.
QuadKey_unchecked(key) == [key |-> key, level |-> Len(key)]

\* QuadKey.__init__
QuadKey(key) == precondition(valid_key(key), [key |-> key, level |-> Len(key)])

\* The exception, where a list was to be returned.
RaisedList == <<Raised>>

\* A list comprehension of constructor calls raises when one of them does.
list_of(qs) == IF \E i \in 1..Len(qs) : qs[i] = Raised THEN RaisedList ELSE qs

\* children() putting the new digit in front of the key.
children_prepend(self) ==
    IF self.level >= MaxLevel THEN <<>>
    ELSE list_of([i \in 1..4 |-> QuadKey(<<str(i - 1)>> \o self.key)])

children(self) ==
    IF self.level >= MaxLevel THEN <<>>
    ELSE list_of([i \in 1..4 |-> QuadKey(Append(self.key, str(i - 1)))])

parent(self) == QuadKey(slice_to(self.key, Len(self.key) - 1))

\* The offsets with the tile itself among them.
perms_with_self == {<<dx, dy>> : dx \in {-1, 0, 1}, dy \in {-1, 0, 1}}

perms == {<<-1, -1>>, <<-1, 0>>, <<-1, 1>>, <<0, -1>>,
          <<0, 1>>, <<1, -1>>, <<1, 0>>, <<1, 1>>}

\* The set of neighbour tiles nearby() builds.
nearby_tiles(self) ==
    LET tile == quadkey_to_tile(self.key)[1]
    IN  {<<abs(tile[1] + perm[1]), abs(tile[2] + perm[2])>> : perm \in perms}

\* nearby() returns a list with one key string per tile of the set, in the
\* set's iteration order: the bag of its elements.
nearby(self) ==
    LET level == quadkey_to_tile(self.key)[2]
        tiles == nearby_tiles(self)
        keys  == {tile_to_quadkey(t, level) : t \in tiles}
    IN  [k \in keys |-> Cardinality({t \in tiles : tile_to_quadkey(t, level) = k})]

\* is_ancestor with its level test turned around.
is_ancestor_turned(self, node) ==
    IF self.level >= node.level \/ slice_to(self.key, Len(node.key)) # node.key
    THEN None
    ELSE Some(self.level - node.level)

is_ancestor(self, node) ==
    IF self.level <= node.level \/ slice_to(self.key, Len(node.key)) # node.key
    THEN None
    ELSE Some(self.level - node.level)

\* is_descendent asking self instead of node.
is_descendent_same(self, node) == is_ancestor(self, node)

is_descendent(self, node) == is_ancestor(node, self)

\* to_tile with the two coordinates exchanged.
to_tile_swapped(self) ==
    LET r == quadkey_to_tile(self.key)
    IN  <<<<r[1][2], r[1][1]>>, r[2]>>

to_tile(self) == quadkey_to_tile(self.key)

from_tile(tile, level) == QuadKey(tile_to_quadkey(tile, level))

from_str(qk_str) == QuadKey(qk_str)

\* unwind without reversed(): the shortest prefix first.
unwind_ascending(self) ==
    list_of([j \in 1..Len(self.key) |-> QuadKey(slice_to(self.key, j))])

unwind(self) ==
    list_of([j \in 1..Len(self.key) |->
                QuadKey(slice_to(self.key, (Len(self.key) - j) + 1))])

\* The four corners xdifference starts from, each None (the empty tuple here)
\* until the classification of the two tiles assigns it.
NoTile == <<>>

\* The classification with the third case's corners exchanged.
classify_swapped(self_tile, to_tile_) ==
    IF self_tile[1] >= to_tile_[1] /\ self_tile[2] <= to_tile_[2]
    THEN [ne |-> self_tile, sw |-> to_tile_, nw |-> NoTile, se |-> NoTile]
    ELSE IF self_tile[1] <= to_tile_[1] /\ self_tile[2] >= to_tile_[2]
    THEN [ne |-> to_tile_, sw |-> self_tile, nw |-> NoTile, se |-> NoTile]
    ELSE IF self_tile[1] <= to_tile_[1] /\ self_tile[2] <= to_tile_[2]
    THEN [ne |-> NoTile, sw |-> NoTile, nw |-> to_tile_, se |-> self_tile]
    ELSE IF self_tile[1] >= to_tile_[1] /\ self_tile[2] >= to_tile_[2]
    THEN [ne |-> NoTile, sw |-> NoTile, nw |-> to_tile_, se |-> self_tile]
    ELSE [ne |-> NoTile, sw |-> NoTile, nw |-> NoTile, se |-> NoTile]

classify(self_tile, to_tile_) ==
    IF self_tile[1] >= to_tile_[1] /\ self_tile[2] <= to_tile_[2]
    THEN [ne |-> self_tile, sw |-> to_tile_, nw |-> NoTile, se |-> NoTile]
    ELSE IF self_tile[1] <= to_tile_[1] /\ self_tile[2] >= to_tile_[2]
    THEN [ne |-> to_tile_, sw |-> self_tile, nw |-> NoTile, se |-> NoTile]
    ELSE IF self_tile[1] <= to_tile_[1] /\ self_tile[2] <= to_tile_[2]
    THEN [ne |-> NoTile, sw |-> NoTile, nw |-> self_tile, se |-> to_tile_]
    ELSE IF self_tile[1] >= to_tile_[1] /\ self_tile[2] >= to_tile_[2]
    THEN [ne |-> NoTile, sw |-> NoTile, nw |-> to_tile_, se |-> self_tile]
    ELSE [ne |-> NoTile, sw |-> NoTile, nw |-> NoTile, se |-> NoTile]

\* The loops with the inner test strict: the row of the far corner is left out.
RECURSIVE xdifference_loop_strict(_, _, _, _)
xdifference_loop_strict(c, cur, level, acc) ==
    IF cur[1] >= (IF c.sw # NoTile THEN c.sw[1] ELSE c.nw[1])
    THEN IF \/ (c.sw # NoTile /\ cur[2] < c.sw[2])
            \/ (c.nw # NoTile /\ cur[2] > c.nw[2])
         THEN xdifference_loop_strict(c,
                               <<cur[1], cur[2] + (IF c.sw # NoTile THEN 1 ELSE -1)>>,
                               level,
                               Append(acc, from_tile(cur, level)))
         ELSE xdifference_loop_strict(c,
                               <<cur[1] - 1, IF c.ne # NoTile THEN c.ne[2] ELSE c.se[2]>>,
                               level,
                               acc)
    ELSE acc

\* The two nested while loops of xdifference, one test per step: acc is the
\* sequence of the values yielded so far.
RECURSIVE xdifference_loop(_, _, _, _)
xdifference_loop(c, cur, level, acc) ==
    IF cur[1] >= (IF c.sw # NoTile THEN c.sw[1] ELSE c.nw[1])
    THEN IF \/ (c.sw # NoTile /\ cur[2] <= c.sw[2])
            \/ (c.nw # NoTile /\ cur[2] >= c.nw[2])
         THEN xdifference_loop(c,
                               <<cur[1], cur[2] + (IF c.sw # NoTile THEN 1 ELSE -1)>>,
                               level,
                               Append(acc, from_tile(cur, level)))
         ELSE xdifference_loop(c,
                               <<cur[1] - 1, IF c.ne # NoTile THEN c.ne[2] ELSE c.se[2]>>,
                               level,
                               acc)
    ELSE acc

xdifference(first, second) ==
    IF first.level # second.level THEN RaisedList
    ELSE LET c == classify(to_tile(first)[1], to_tile(second)[1])
             cur == IF c.ne # NoTile THEN c.ne ELSE c.se
         IN  list_of(xdifference_loop(c, cur, first.level, <<>>))

difference(self, to) == xdifference(self, to)

\* ------------------------------------------------------------ the inputs

RECURSIVE KeysOfLen(_)
KeysOfLen(n) ==
    IF n = 0 THEN {<<>>}
    ELSE {Append(k, c) : k \in KeysOfLen(n - 1), c \in {"0", "1", "2", "3"}}

ShortKeys == UNION {KeysOfLen(n) : n \in 1..MaxLen}

\* The keys the documentation's examples use.
StatedKeys == {<<"1", "2", "0", "3", "0">>, <<"1", "2", "0">>, <<"1", "2", "3">>}

\* The coordinates of the first and the last tile of the deepest level.
EdgeCoords == {0, (2 ^ MaxLevel) - 1}

\* Strings the constructor has to reject: the empty one, one with a character
\* that is no digit of a key, and one of 24 characters.
BadStrings == {<<>>, <<"4">>, <<"1", "a">>, [i \in 1..(MaxLevel + 1) |-> "0"]}

Strings == ShortKeys \cup StatedKeys \cup BadStrings

\* The tiles and levels from_tile is called with: every tile of every level
\* up to MaxLen, and the first and the last tile of the deepest level.
TileInputs ==
    {<<<<tx, ty>>, l>> : tx \in 0..((2 ^ MaxLen) - 1), ty \in 0..((2 ^ MaxLen) - 1),
                         l \in 1..MaxLen}
    \cup {<<<<e, e>>, MaxLevel>> : e \in EdgeCoords}

NoArg == [set |-> FALSE, tile |-> <<0, 0>>, level |-> 0]

NoTileResult == <<<<0, 0>>, 0>>

\* A QuadKey the model goes on with: the short ones and the two deepest levels.
InScope(q) == q.level <= MaxLen \/ q.level >= MaxLevel - 1

\* -------------------------------------------------------------- the state

VARIABLES
    self,     \* the QuadKey the methods are called on
    node,     \* the QuadKey passed as the argument (node, to)
    op,       \* the last call made
    str_in,   \* the string the last from_str call was given
    tile_in,  \* the tile and level self was made from by from_tile
    out,      \* the list of QuadKeys the last call returned
    near,     \* the list nearby() returned, as a bag of key strings
    rel,      \* what is_ancestor or is_descendent returned
    tl,       \* what to_tile() returned
    err       \* whether the last call raised

vars == <<self, node, op, str_in, tile_in, out, near, rel, tl, err>>

Init ==
    /\ node \in {QuadKey(k) : k \in ShortKeys \cup StatedKeys}
    /\ self = node
    /\ op = "init"
    /\ str_in = <<>>
    /\ tile_in = NoArg
    /\ out = <<>>
    /\ near = EmptyBag
    /\ rel = None
    /\ tl = NoTileResult
    /\ err = FALSE

\* What a call leaves behind: its name and its results.
Returns(name, o, n, r, t, e) ==
    /\ op' = name
    /\ out' = o
    /\ near' = n
    /\ rel' = r
    /\ tl' = t
    /\ err' = e

\* A call that returns a list of QuadKeys, or raises.
ReturnsList(name, r) ==
    IF r = RaisedList
    THEN Returns(name, <<>>, EmptyBag, None, NoTileResult, TRUE)
    ELSE Returns(name, r, EmptyBag, None, NoTileResult, FALSE)

\* The caller holds one QuadKey, under both names, and builds the QuadKey it
\* calls the methods on before it calls them.
Building == op = "init"

\* self = quadkey.from_str(s)
FromStr ==
    \E s \in Strings :
        LET q == from_str(s)
        IN  /\ Building
            /\ self' = (IF q = Raised THEN self ELSE q)
            /\ str_in' = s
            /\ tile_in' = NoArg
            /\ Returns("from_str", <<>>, EmptyBag, None, NoTileResult, q = Raised)
            /\ UNCHANGED node

\* self = quadkey.from_tile(tile, level)
FromTile ==
    \E a \in TileInputs :
        LET q == from_tile(a[1], a[2])
        IN  /\ Building
            /\ a[1][1] < 2 ^ a[2]
            /\ a[1][2] < 2 ^ a[2]
            /\ self' = (IF q = Raised THEN self ELSE q)
            /\ str_in' = <<>>
            /\ tile_in' = (IF q = Raised THEN NoArg
                           ELSE [set |-> TRUE, tile |-> a[1], level |-> a[2]])
            /\ Returns("from_tile", <<>>, EmptyBag, None, NoTileResult, q = Raised)
            /\ UNCHANGED node

ToTile ==
    /\ Returns("to_tile", <<>>, EmptyBag, None, to_tile(self), FALSE)
    /\ str_in' = <<>>
    /\ UNCHANGED <<self, node, tile_in>>

Children ==
    /\ ReturnsList("children", children(self))
    /\ str_in' = <<>>
    /\ tile_in' = NoArg
    /\ UNCHANGED <<self, node>>

Parent ==
    /\ ReturnsList("parent", <<parent(self)>>)
    /\ str_in' = <<>>
    /\ tile_in' = NoArg
    /\ UNCHANGED <<self, node>>

Unwind ==
    /\ ReturnsList("unwind", unwind(self))
    /\ str_in' = <<>>
    /\ tile_in' = NoArg
    /\ UNCHANGED <<self, node>>

Nearby ==
    /\ Returns("nearby", <<>>, nearby(self), None, NoTileResult, FALSE)
    /\ str_in' = <<>>
    /\ tile_in' = NoArg
    /\ UNCHANGED <<self, node>>

IsAncestor ==
    /\ Returns("is_ancestor", <<>>, EmptyBag, is_ancestor(self, node), NoTileResult, FALSE)
    /\ str_in' = <<>>
    /\ tile_in' = NoArg
    /\ UNCHANGED <<self, node>>

IsDescendent ==
    /\ Returns("is_descendent", <<>>, EmptyBag, is_descendent(self, node), NoTileResult, FALSE)
    /\ str_in' = <<>>
    /\ tile_in' = NoArg
    /\ UNCHANGED <<self, node>>

\* Whether the two tiles are at most MaxSpan apart on each axis.
WithinSpan(a, b) ==
    /\ abs(to_tile(a)[1][1] - to_tile(b)[1][1]) <= MaxSpan
    /\ abs(to_tile(a)[1][2] - to_tile(b)[1][2]) <= MaxSpan

Difference ==
    /\ self.level = node.level => WithinSpan(self, node)
    /\ ReturnsList("difference", difference(self, node))
    /\ str_in' = <<>>
    /\ tile_in' = NoArg
    /\ UNCHANGED <<self, node>>

\* The caller goes on with a QuadKey the last call returned.
Take ==
    \E i \in 1..Len(out) :
        /\ InScope(out[i])
        /\ self' = out[i]
        /\ str_in' = <<>>
        /\ tile_in' = NoArg
        /\ Returns("take", <<>>, EmptyBag, None, NoTileResult, FALSE)
        /\ UNCHANGED node

\* The caller passes a QuadKey the last call returned as the next argument.
TakeNode ==
    \E i \in 1..Len(out) :
        /\ InScope(out[i])
        /\ node' = out[i]
        /\ str_in' = <<>>
        /\ tile_in' = NoArg
        /\ Returns("take", <<>>, EmptyBag, None, NoTileResult, FALSE)
        /\ UNCHANGED self

Next ==
    \/ FromStr
    \/ FromTile
    \/ ToTile
    \/ Children
    \/ Parent
    \/ Unwind
    \/ Nearby
    \/ IsAncestor
    \/ IsDescendent
    \/ Difference
    \/ Take
    \/ TakeNode

Spec == Init /\ [][Next]_vars

\* ------------------------------------------------------------ properties

Digits == {"0", "1", "2", "3"}

\* p is a proper prefix of k.
StrictPrefix(p, k) ==
    /\ Len(p) < Len(k)
    /\ \A i \in 1..Len(p) : p[i] = k[i]

\* A value with a key of 1 to MaxLevel digits and the level of that length.
ValidQuadKey(q) ==
    /\ Len(q.key) >= 1
    /\ Len(q.key) <= MaxLevel
    /\ \A i \in 1..Len(q.key) : q.key[i] \in Digits
    /\ q.level = Len(q.key)

\* The tile a returned QuadKey stands for.
TileOf(q) == to_tile(q)[1]

\* The closed rectangle of tiles between two tiles.
Rectangle(a, b) ==
    {<<tx, ty>> : tx \in (IF a[1] <= b[1] THEN a[1]..b[1] ELSE b[1]..a[1]),
                  ty \in (IF a[2] <= b[2] THEN a[2]..b[2] ELSE b[2]..a[2])}

\* C1: a QuadKey made by from_tile from a tile (x, y) of level L, with
\* 0 <= x, y < 2^L, gives back ((x, y), L) from to_tile().
C1_RoundTrip ==
    (op = "to_tile" /\ tile_in.set) => tl = <<tile_in.tile, tile_in.level>>

C1_Witness ==
    /\ op = "to_tile"
    /\ tile_in.set
    /\ tile_in.level = MaxLevel
    /\ tile_in.tile = <<(2 ^ MaxLevel) - 1, (2 ^ MaxLevel) - 1>>
    /\ tl = <<tile_in.tile, MaxLevel>>

\* C2: difference() of two QuadKeys of one level does not raise and returns
\* (|dx|+1)*(|dy|+1) QuadKeys of that level, no two of them equal, whose tiles
\* are exactly the tiles of the closed rectangle between the two tiles.
C2_DifferenceRectangle ==
    (op = "difference" /\ self.level = node.level) =>
        /\ ~err
        /\ Len(out) = (abs(TileOf(self)[1] - TileOf(node)[1]) + 1)
                      * (abs(TileOf(self)[2] - TileOf(node)[2]) + 1)
        /\ \A i \in 1..Len(out) : out[i].level = self.level
        /\ \A i, j \in 1..Len(out) : i # j => out[i].key # out[j].key
        /\ {TileOf(out[i]) : i \in 1..Len(out)} = Rectangle(TileOf(self), TileOf(node))

C2_Witness ==
    /\ op = "difference"
    /\ ~err
    /\ TileOf(self)[1] + MaxSpan = TileOf(node)[1]
    /\ TileOf(self)[2] + MaxSpan = TileOf(node)[2]
    /\ Len(out) = (MaxSpan + 1) * (MaxSpan + 1)

\* C3: children() of a QuadKey of a level below 23 returns 4 QuadKeys, no two
\* of them equal, and the parent() of each is the QuadKey itself.
C3_ChildrenParent ==
    (op = "children" /\ self.level < MaxLevel) =>
        /\ ~err
        /\ Len(out) = 4
        /\ \A i, j \in 1..4 : i # j => out[i].key # out[j].key
        /\ \A i \in 1..4 : parent(out[i]).key = self.key

C3_Witness ==
    /\ op = "children"
    /\ self.level = MaxLevel - 1
    /\ Len(out) = 4
    /\ parent(out[4]) = self

\* C4, as stated: when node's key is a proper prefix of self's key,
\* self.is_ancestor(node) is None and self.is_descendent(node) is
\* self.level - node.level.
C4_AsStated ==
    StrictPrefix(node.key, self.key) =>
        /\ op = "is_ancestor" => rel = None
        /\ op = "is_descendent" => rel = Some(self.level - node.level)

\* C4, amended: when node's key is a proper prefix of self's key,
\* self.is_ancestor(node) is self.level - node.level and
\* self.is_descendent(node) is None.
C4_Amended ==
    StrictPrefix(node.key, self.key) =>
        /\ op = "is_ancestor" => rel = Some(self.level - node.level)
        /\ op = "is_descendent" => rel = None

C4_Witness ==
    /\ op = "is_ancestor"
    /\ self.key = <<"1", "2", "0", "3", "0">>
    /\ node.key = <<"1", "2", "0">>
    /\ rel = Some(2)

\* C5: is_ancestor returns self.level - node.level, a number of at least 1,
\* exactly when node's key is a proper prefix of self's key, and None in every
\* other case, never raising; is_descendent returns what is_ancestor returns
\* with self and node exchanged.
C5_AncestorExact ==
    /\ op = "is_ancestor" =>
        /\ ~err
        /\ rel = (IF StrictPrefix(node.key, self.key)
                  THEN Some(self.level - node.level) ELSE None)
        /\ ~rel.none => rel.val >= 1
    /\ op = "is_descendent" =>
        /\ ~err
        /\ rel = (IF StrictPrefix(self.key, node.key)
                  THEN Some(node.level - self.level) ELSE None)
        /\ ~rel.none => rel.val >= 1

C5_Witness ==
    /\ op = "is_descendent"
    /\ self.key = <<"1", "2", "0">>
    /\ node.key = <<"1", "2", "0", "3", "0">>
    /\ rel = Some(2)

\* C6: unwind() of a QuadKey of level L returns L QuadKeys, the one at index i
\* (from 0) having the first L - i digits of the key: the QuadKey itself first
\* and the ancestor of level 1 last.
C6_Unwind ==
    op = "unwind" =>
        /\ ~err
        /\ Len(out) = self.level
        /\ \A j \in 1..Len(out) :
            /\ out[j].level = (self.level - j) + 1
            /\ Len(out[j].key) = (self.level - j) + 1
            /\ \A i \in 1..Len(out[j].key) : out[j].key[i] = self.key[i]

C6_Witness ==
    /\ op = "unwind"
    /\ self.key = <<"1", "2", "3">>
    /\ out = << [key |-> <<"1", "2", "3">>, level |-> 3],
                [key |-> <<"1", "2">>, level |-> 2],
                [key |-> <<"1">>, level |-> 1] >>

\* C7: nearby() returns at most 8 keys, each a valid key with as many digits
\* as the level of the QuadKey.
C7_NearbyBound ==
    op = "nearby" =>
        /\ BagCardinality(near) <= 8
        /\ \A k \in DOMAIN near :
            /\ Len(k) = self.level
            /\ Len(k) >= 1
            /\ Len(k) <= MaxLevel
            /\ \A i \in 1..Len(k) : k[i] \in Digits

C7_Witness ==
    /\ op = "nearby"
    /\ self.level = MaxLevel
    /\ TileOf(self) = <<(2 ^ MaxLevel) - 1, (2 ^ MaxLevel) - 1>>
    /\ BagCardinality(near) = 8

\* C8: every QuadKey there is has a key of 1 to 23 digits 0..3 and the level
\* of its length; from_str of a string that is empty, too long or has another
\* character raises; parent() of a QuadKey of level 1 raises and of a deeper one
\* returns a QuadKey one level up; children() of a QuadKey of level 23 returns
\* the empty list.
C8_Validity ==
    /\ ValidQuadKey(self)
    /\ ValidQuadKey(node)
    /\ \A i \in 1..Len(out) : ValidQuadKey(out[i])
    /\ (/\ op = "from_str"
        /\ \/ Len(str_in) = 0
           \/ Len(str_in) > MaxLevel
           \/ \E i \in 1..Len(str_in) : str_in[i] \notin Digits)
       => err
    /\ (op = "parent" /\ self.level = 1) => (err /\ out = <<>>)
    /\ (op = "parent" /\ self.level > 1) =>
           (~err /\ Len(out) = 1 /\ out[1].level = self.level - 1)
    /\ (op = "children" /\ self.level = MaxLevel) => (~err /\ out = <<>>)

C8_Witness ==
    /\ op = "parent"
    /\ self.level = 1
    /\ err
    /\ out = <<>>

\* C9: the keys nearby() returns are pairwise distinct, one for each distinct
\* neighbour tile (|tileX+dx|, |tileY+dy|).
C9_NearbyDistinct ==
    op = "nearby" =>
        /\ \A k \in DOMAIN near : near[k] = 1
        /\ Cardinality(DOMAIN near) = Cardinality(nearby_tiles(self))

\* C10: difference() gives the same QuadKeys in the same order with self and
\* to exchanged; the list starts at the tile of one of the two and ends at the
\* tile of the other, and tileX never grows along it.
C10_DifferenceCommutes ==
    (op = "difference" /\ self.level = node.level) =>
        /\ out = difference(node, self)
        /\ Len(out) >= 1
        /\ \/ TileOf(out[1]) = TileOf(self) /\ TileOf(out[Len(out)]) = TileOf(node)
           \/ TileOf(out[1]) = TileOf(node) /\ TileOf(out[Len(out)]) = TileOf(self)
        /\ \A i \in 1..(Len(out) - 1) : TileOf(out[i + 1])[1] <= TileOf(out[i])[1]

C10_Witness ==
    /\ op = "difference"
    /\ ~err
    /\ TileOf(self)[1] = TileOf(node)[1]
    /\ TileOf(self)[2] > TileOf(node)[2]
    /\ TileOf(out[1]) = TileOf(node)
    /\ Len(out) = MaxSpan + 1

====
